---- MODULE Spec2Model ----
(***************************************************************************)
(* Model of kallisto_quant.py: construction of a kallisto quant run        *)
(* (single-end or paired-end), rendering of its command by str.format      *)
(* followed by shlex.split, and execution through subprocess.call.         *)
(*                                                                         *)
(* Strings are sequences of symbols.  The symbols " ", "\"", "'" and "\\"  *)
(* are the whitespace, quote and escape characters shlex distinguishes;    *)
(* every other symbol stands for a run of ordinary characters (a letter    *)
(* of a path, a digit, or a literal word of the template such as "-i").    *)
(* A token is again a sequence of symbols.                                 *)
(***************************************************************************)
EXTENDS Integers, Sequences, FiniteSets, TLC

\* ---------------------------------------------------------------- bounds
MaxFastqs == 3
MaxThreads == 1
MaxToolStatus == 2

\* ---------------------------------------------------------- input domains
Paths ==
  { <<"a">>, <<"b">>, <<"a", " ", "b">>, <<"\"">>, <<"\"", "\"">>, <<"\\", "a">> }

IndexPaths == { <<"i">>, <<"\"">> }

OutputDirs == { <<"o">> }

Endednesses == { "single", "paired", "None" }

Strandednesses == { "forward", "reverse", "unstranded", "bogus" }

Threads == (-1) .. MaxThreads

FragmentLengths == { 200 }

\* standard deviations, in tenths (200 is the float 20.0)
SdTenths == { 200 }

FastqLists == UNION { [1 .. n -> Paths] : n \in 0 .. MaxFastqs }

\* ------------------------------------------------------- number formatting
Digit(d) ==
  CASE d = 0 -> "0" [] d = 1 -> "1" [] d = 2 -> "2" [] d = 3 -> "3"
    [] d = 4 -> "4" [] d = 5 -> "5" [] d = 6 -> "6" [] d = 7 -> "7"
    [] d = 8 -> "8" [] d = 9 -> "9"

RECURSIVE NatStr(_)
NatStr(n) == IF n < 10 THEN << Digit(n) >> ELSE NatStr(n \div 10) \o << Digit(n % 10) >>

\* str(int), as '{number_of_threads}'.format(...) renders an int
IntStr(n) == IF n < 0 THEN << "-" >> \o NatStr(0 - n) ELSE NatStr(n)

\* str(float) of a non-negative float with one decimal digit, given in tenths
FloatStr(t) == NatStr(t \div 10) \o << "." >> \o << Digit(t % 10) >>

\* ------------------------------------------------------------- shlex.split
Whitespace == { " " }
Quotes == { "\"", "'" }
Escape == { "\\" }
EscapedQuotes == { "\"" }

\* the lexer of shlex.shlex(s, posix=True) with whitespace_split = True and
\* no commenters, as shlex.split sets it up:
\*   st      the lexer state: " " (between tokens), "a" (in a word),
\*           a quote character, or the escape character
\*   esc     the state to return to after an escaped character
\*   tok     the token accumulated so far
\*   quoted  whether the current token contained a quoted part
\*   out     the tokens already read
LexStart ==
  [st |-> " ", esc |-> " ", tok |-> << >>, quoted |-> FALSE, out |-> << >>]

\* one pass of the loop of read_token, on the character c
LexStep(q, c) ==
  CASE q.st = " " ->
         IF c \in Whitespace THEN q
         ELSE IF c \in Escape THEN [q EXCEPT !.st = c, !.esc = "a"]
         ELSE IF c \in Quotes THEN [q EXCEPT !.st = c]
         ELSE [q EXCEPT !.st = "a", !.tok = << c >>]
    [] q.st \in Quotes ->
         IF c = q.st THEN [q EXCEPT !.st = "a", !.quoted = TRUE]
         ELSE IF c \in Escape /\ q.st \in EscapedQuotes
              THEN [q EXCEPT !.st = c, !.esc = q.st, !.quoted = TRUE]
         ELSE [q EXCEPT !.tok = Append(q.tok, c), !.quoted = TRUE]
    [] q.st \in Escape ->
         IF q.esc \in Quotes /\ c # q.st /\ c # q.esc
         THEN [q EXCEPT !.st = q.esc, !.tok = q.tok \o << q.st, c >>]
         ELSE [q EXCEPT !.st = q.esc, !.tok = Append(q.tok, c)]
    [] q.st = "a" ->
         IF c \in Whitespace
         THEN IF q.tok # << >> \/ q.quoted
              THEN [q EXCEPT !.st = " ", !.tok = << >>, !.quoted = FALSE,
                             !.out = Append(q.out, q.tok)]
              ELSE [q EXCEPT !.st = " "]
         ELSE IF c \in Quotes THEN [q EXCEPT !.st = c]
         ELSE IF c \in Escape THEN [q EXCEPT !.st = c, !.esc = "a"]
         ELSE [q EXCEPT !.tok = Append(q.tok, c)]

\* the lexer started in q after reading the characters s[lo] .. s[hi] in
\* order.  The range is halved, and the state after the first half is
\* inspected before the second half starts, so that TLC, which evaluates
\* arguments on demand, keeps the evaluation shallow; a lexer state is never
\* the empty string.
RECURSIVE LexRun(_, _, _, _)
LexRun(q, s, lo, hi) ==
  IF lo > hi THEN q
  ELSE IF lo = hi THEN LexStep(q, s[lo])
  ELSE LET mid == (lo + hi) \div 2
           left == LexRun(q, s, lo, mid)
       IN IF left.st # "" THEN LexRun(left, s, mid + 1, hi) ELSE left

\* end of input: ValueError inside a quotation or after an escape character,
\* otherwise the last token, if there is one, completes the list
LexEnd(q) ==
  IF q.st \in Quotes \/ q.st \in Escape
  THEN [ok |-> FALSE, toks |-> << >>]
  ELSE IF q.st = "a" /\ (q.tok # << >> \/ q.quoted)
       THEN [ok |-> TRUE, toks |-> Append(q.out, q.tok)]
       ELSE [ok |-> TRUE, toks |-> q.out]

shlex_split(s) == LexEnd(LexRun(LexStart, s, 1, Len(s)))

\* ------------------------------------------------------ command templates
\* the blank before a backslash-newline plus the four blanks of indentation
Gap == << " ", " ", " ", " ", " " >>

\* KallistoQuantSingleEnd.command_template.format(**kw)
FormatSingleEnd(kw) ==
  << "kallisto", " ", "quant", " ", "-i", " " >> \o kw.path_to_index \o Gap
    \o << "-o", " " >> \o kw.output_dir \o Gap
    \o << "-t", " " >> \o IntStr(kw.number_of_threads) \o Gap
    \o << "--plaintext" >> \o Gap
    \o kw.strandedness_direction \o Gap
    \o << "--single" >> \o Gap
    \o << "-l", " " >> \o IntStr(kw.fragment_length) \o Gap
    \o << "-s", " " >> \o FloatStr(kw.sd_of_fragment_length) \o Gap
    \o kw.fastq

\* KallistoQuantPairedEnd.command_template.format(**kw)
FormatPairedEnd(kw) ==
  << " ", "kallisto", " ", "quant", " ", "-i", " " >> \o kw.path_to_index \o Gap
    \o << "-o", " " >> \o kw.output_dir \o Gap
    \o << "-t", " " >> \o IntStr(kw.number_of_threads) \o Gap
    \o << "--plaintext" >> \o Gap
    \o kw.strandedness_direction \o Gap
    \o kw.fastq1 \o << " " >> \o kw.fastq2

\* ------------------------------------------------------- parse_strandedness
strandedness_dict ==
  [ forward |-> << "--fr-stranded" >>,
    reverse |-> << "--rf-stranded" >>,
    unstranded |-> << >> ]

\* a lookup that falls back to the empty flag for an unknown key
parse_strandedness_default(strandedness) ==
  IF strandedness \in DOMAIN strandedness_dict
  THEN [raised |-> "none", value |-> strandedness_dict[strandedness]]
  ELSE [raised |-> "none", value |-> << >>]

\* strandedness_dict[strandedness]: the flag, or KeyError
parse_strandedness(strandedness) ==
  IF strandedness \in DOMAIN strandedness_dict
  THEN [raised |-> "none", value |-> strandedness_dict[strandedness]]
  ELSE [raised |-> "KeyError", value |-> << >>]

\* ------------------------------------------------------------------ state
VARIABLES
  args,         \* the argument namespace main is called with
  pc,           \* "main", "built", "running", "returned", "exit"
  self,         \* attributes assigned so far on the KallistoQuant object
  raised,       \* the exception that ended the run, or "none"
  spawned,      \* whether subprocess.call started the external process
  tool_status,  \* exit status of the external process, -1 before it exits
  exit_status   \* exit status of this program, -1 while it runs

vars == << args, pc, self, raised, spawned, tool_status, exit_status >>

NoAttrs == [a \in {} |-> << >>]

Init ==
  /\ args \in [ endedness : Endednesses,
                strandedness : Strandednesses,
                number_of_threads : Threads,
                path_to_index : IndexPaths,
                output_dir : OutputDirs,
                fragment_length : FragmentLengths,
                sd_of_fragment_length : SdTenths,
                fastqs : FastqLists ]
  /\ pc = "main"
  /\ self = NoAttrs
  /\ raised = "none"
  /\ spawned = FALSE
  /\ tool_status = -1
  /\ exit_status = -1

\* KallistoQuant.__init__: the attributes of the base class, or KeyError
BaseInit(a) ==
  LET p == parse_strandedness(a.strandedness)
      base == [ path_to_index |-> a.path_to_index,
                output_dir |-> a.output_dir,
                number_of_threads |-> a.number_of_threads ]
  IN IF p.raised # "none"
     THEN [raised |-> p.raised, attrs |-> base]
     ELSE [raised |-> "none",
           attrs |-> base @@ [strandedness_direction |-> p.value]]

\* KallistoQuantSingleEnd.__init__
SingleEndInit(a) ==
  LET b == BaseInit(a) IN
  IF b.raised # "none" THEN b
  ELSE LET s1 == b.attrs @@ [ fragment_length |-> a.fragment_length,
                               sd_of_fragment_length |-> a.sd_of_fragment_length ]
       IN IF Len(a.fastqs) # 1
          THEN [raised |-> "SystemExit", attrs |-> s1]
          ELSE LET s2 == s1 @@ [fastq |-> a.fastqs[1]]
                   r == shlex_split(FormatSingleEnd(s2))
               IN IF r.ok
                  THEN [raised |-> "none", attrs |-> s2 @@ [_command |-> r.toks]]
                  ELSE [raised |-> "ValueError", attrs |-> s2]

\* KallistoQuantPairedEnd.__init__
PairedEndInit(a) ==
  LET b == BaseInit(a) IN
  IF b.raised # "none" THEN b
  ELSE IF Len(a.fastqs) < 1
       THEN [raised |-> "IndexError", attrs |-> b.attrs]
  ELSE IF Len(a.fastqs) < 2
       THEN [raised |-> "IndexError", attrs |-> b.attrs @@ [fastq1 |-> a.fastqs[1]]]
  ELSE LET s2 == b.attrs @@ [fastq1 |-> a.fastqs[1], fastq2 |-> a.fastqs[2]]
           r == shlex_split(FormatPairedEnd(s2))
       IN IF r.ok
          THEN [raised |-> "none", attrs |-> s2 @@ [_command |-> r.toks]]
          ELSE [raised |-> "ValueError", attrs |-> s2]

\* the exit status of the interpreter when an exception ends the run:
\* sys.exit(1) and an uncaught exception both give 1
ErrorStatus == 1

\* the outcome of a constructor becomes the state of the run
Constructed(r) ==
  /\ self' = r.attrs
  /\ raised' = r.raised
  /\ IF r.raised = "none"
     THEN pc' = "built" /\ exit_status' = exit_status
     ELSE pc' = "exit" /\ exit_status' = ErrorStatus
  /\ UNCHANGED << args, spawned, tool_status >>

\* get_kallisto_quant_instance, args.endedness == 'single'
ConstructSingleEnd ==
  /\ pc = "main"
  /\ args.endedness = "single"
  /\ Constructed(SingleEndInit(args))

\* get_kallisto_quant_instance, args.endedness == 'paired'
ConstructPairedEnd ==
  /\ pc = "main"
  /\ args.endedness = "paired"
  /\ Constructed(PairedEndInit(args))

\* get_kallisto_quant_instance falls off its if/elif and returns None;
\* main then calls None.run()
ConstructNone ==
  /\ pc = "main"
  /\ args.endedness \notin { "single", "paired" }
  /\ pc' = "exit"
  /\ raised' = "AttributeError"
  /\ exit_status' = ErrorStatus
  /\ UNCHANGED << args, self, spawned, tool_status >>

\* KallistoQuant.run up to the start of the child: subprocess.call(self.command)
Spawn ==
  /\ pc = "built"
  /\ spawned' = TRUE
  /\ pc' = "running"
  /\ UNCHANGED << args, self, raised, tool_status, exit_status >>

\* the child exits; subprocess.call returns its status, which run discards
ToolExit ==
  /\ pc = "running"
  /\ \E st \in 0 .. MaxToolStatus : tool_status' = st
  /\ pc' = "returned"
  /\ UNCHANGED << args, self, raised, spawned, exit_status >>

\* run and main return None; the script ends and the interpreter exits 0
MainReturn ==
  /\ pc = "returned"
  /\ exit_status' = 0
  /\ pc' = "exit"
  /\ UNCHANGED << args, self, raised, spawned, tool_status >>

Next ==
  \/ ConstructSingleEnd
  \/ ConstructPairedEnd
  \/ ConstructNone
  \/ Spawn
  \/ ToolExit
  \/ MainReturn

Spec == Init /\ [][Next]_vars

\* ------------------------------------------------------------- type check
TypeOK ==
  /\ pc \in { "main", "built", "running", "returned", "exit" }
  /\ raised \in { "none", "KeyError", "IndexError", "SystemExit",
                  "ValueError", "AttributeError" }
  /\ spawned \in BOOLEAN
  /\ tool_status \in (-1) .. MaxToolStatus
  /\ exit_status \in { -1, 0, ErrorStatus }

\* ----------------------------------------------------------------- claims
Constructing == args.endedness \in { "single", "paired" }

Rendered == "_command" \in DOMAIN self

RecognizedStrandedness == { "forward", "reverse", "unstranded" }

CountMatchesMode ==
  \/ args.endedness = "single" /\ Len(args.fastqs) = 1
  \/ args.endedness = "paired" /\ Len(args.fastqs) = 2

\* the flag the specification assigns to a recognized strandedness
ExpectedFlag(s) ==
  CASE s = "forward" -> << "--fr-stranded" >>
    [] s = "reverse" -> << "--rf-stranded" >>
    [] s = "unstranded" -> << >>

\* the token vector of the specification, built directly from the fields
ExpectedPrefix(a) ==
  << << "kallisto" >>, << "quant" >>, << "-i" >>, a.path_to_index,
     << "-o" >>, a.output_dir, << "-t" >>, IntStr(a.number_of_threads),
     << "--plaintext" >> >>
    \o (IF ExpectedFlag(a.strandedness) = << >>
        THEN << >> ELSE << ExpectedFlag(a.strandedness) >>)

ExpectedTokens(a) ==
  IF a.endedness = "single"
  THEN ExpectedPrefix(a)
         \o << << "--single" >>, << "-l" >>, IntStr(a.fragment_length),
               << "-s" >>, FloatStr(a.sd_of_fragment_length), a.fastqs[1] >>
  ELSE ExpectedPrefix(a) \o << a.fastqs[1], a.fastqs[2] >>

\* the constructor get_kallisto_quant_instance selects for a
InstanceOf(a) == IF a.endedness = "single" THEN SingleEndInit(a) ELSE PairedEndInit(a)

\* C1: a paired-end construction from a list of length other than 2 fails
\* and renders no command.
C1_PairedRejectsWrongCount ==
  (pc # "main" /\ args.endedness = "paired" /\ Len(args.fastqs) # 2)
    => (raised # "none" /\ ~Rendered)

\* C2: once the external process has been spawned, the program terminates
\* with the exit status of that process.
C2_ExitStatusPropagated ==
  (pc = "exit" /\ spawned) => exit_status = tool_status

\* C3: with an unrecognized strandedness or an input count that does not
\* match the mode, the run ends in an error and the external process is
\* never started.
C3_NoSpawnOnConfigError ==
  (args.strandedness \notin RecognizedStrandedness \/ ~CountMatchesMode)
    => /\ ~spawned
       /\ pc # "main" => (pc = "exit" /\ raised # "none" /\ exit_status > 0)

\* C4: a single-end construction from a list of length other than 1 ends
\* the run at once with a non-zero status and renders no command; from a
\* list of length 1 (the strandedness being recognized) it succeeds.
C4_SingleEndCount ==
  (pc # "main" /\ args.endedness = "single")
    => /\ Len(args.fastqs) # 1
            => (pc = "exit" /\ exit_status > 0 /\ ~Rendered /\ ~spawned)
       /\ (Len(args.fastqs) = 1 /\ args.strandedness \in RecognizedStrandedness)
            => (raised = "none" /\ Rendered)

\* C5: parse_strandedness gives '--fr-stranded' for forward, '--rf-stranded'
\* for reverse and the empty string for unstranded; for any other value it
\* raises and no strandedness_direction is set.
C5_ParseStrandedness ==
  (pc # "main" /\ Constructing)
    => /\ args.strandedness \in RecognizedStrandedness
            => /\ raised # "KeyError"
               /\ "strandedness_direction" \in DOMAIN self
               /\ self.strandedness_direction = ExpectedFlag(args.strandedness)
       /\ args.strandedness \notin RecognizedStrandedness
            => /\ raised = "KeyError"
               /\ "strandedness_direction" \notin DOMAIN self
               /\ ~Rendered

\* C5 witness: a construction with an unrecognized strandedness has ended
\* the run with KeyError.
C5_Witness ==
  /\ pc = "exit"
  /\ Constructing
  /\ args.strandedness = "bogus"
  /\ raised = "KeyError"

\* C6: for every valid configuration the rendered tokens are exactly the
\* template of its variant, in order, with the strandedness flag left out
\* when it is empty.
C6_TemplateOrder ==
  (pc # "main" /\ Constructing /\ CountMatchesMode
     /\ args.strandedness \in RecognizedStrandedness)
    => (Rendered /\ self._command = ExpectedTokens(args))

\* C7: in a single-end command the input path is, unmodified, the last
\* token, and the index path and the output directory are the tokens after
\* '-i' and '-o'.
C7_PathIsOneToken ==
  (pc # "main" /\ args.endedness = "single" /\ Rendered)
    => /\ Len(self._command) >= 6
       /\ self._command[Len(self._command)] = args.fastqs[1]
       /\ self._command[4] = args.path_to_index
       /\ self._command[6] = args.output_dir

\* C8: the last two tokens of a paired-end command built from [a, b] are a
\* then b; built from [b, a] they are b then a, the other tokens being equal.
C8_MateOrder ==
  (pc # "main" /\ args.endedness = "paired" /\ Len(args.fastqs) = 2 /\ Rendered)
    => LET c == self._command
           n == Len(c)
           r == PairedEndInit([args EXCEPT !.fastqs = << args.fastqs[2], args.fastqs[1] >>])
       IN /\ n >= 2
          /\ c[n - 1] = args.fastqs[1]
          /\ c[n] = args.fastqs[2]
          /\ r.raised = "none"
          /\ LET d == r.attrs._command
             IN /\ Len(d) = n
                /\ d[n - 1] = args.fastqs[2]
                /\ d[n] = args.fastqs[1]
                /\ SubSeq(d, 1, n - 2) = SubSeq(c, 1, n - 2)

\* C9: an unstranded command has no empty token and no strandedness token,
\* and is one token shorter than the command of the same configuration with
\* forward or reverse.
C9_UnstrandedOneShorter ==
  (pc # "main" /\ Constructing /\ Rendered /\ args.strandedness = "unstranded")
    => /\ \A i \in 1 .. Len(self._command) :
            self._command[i] \notin { << >>, << "--fr-stranded" >>, << "--rf-stranded" >> }
       /\ \A s \in { "forward", "reverse" } :
            LET r == InstanceOf([args EXCEPT !.strandedness = s])
            IN /\ r.raised = "none"
               /\ Len(r.attrs._command) = Len(self._command) + 1

\* C10: a thread count of zero or less is an error: no command is rendered
\* and no external process is started.
C10_ThreadsPositive ==
  (pc # "main" /\ args.number_of_threads <= 0)
    => (raised # "none" /\ ~Rendered /\ ~spawned)

\* ------------------------------------------------------- supporting lemma
\* a path shlex.split leaves alone: not empty, and free of whitespace,
\* quote and escape characters
PlainPath(p) ==
  /\ p # << >>
  /\ \A i \in 1 .. Len(p) : p[i] \notin Whitespace \cup Quotes \cup Escape

PlainArgs ==
  /\ PlainPath(args.path_to_index)
  /\ PlainPath(args.output_dir)
  /\ \A i \in 1 .. Len(args.fastqs) : PlainPath(args.fastqs[i])

\* When every path is plain, the strandedness is recognized and the input
\* count matches the mode, construction succeeds and the rendered command is
\* the token vector of the specification.
PlainPathsRenderTemplate ==
  (pc # "main" /\ Constructing /\ CountMatchesMode /\ PlainArgs
     /\ args.strandedness \in RecognizedStrandedness)
    => (raised = "none" /\ Rendered /\ self._command = ExpectedTokens(args))

====
